---- MODULE Spec2Model ----
(***************************************************************************)
(* A model of the two-phase analysis workflow of the Clarify backend:      *)
(* the "analyses" table, the background tasks that run phase 1             *)
(* (run_analysis_workflow) and phase 2 (continue_analysis_workflow), and   *)
(* the HTTP handlers that schedule them.                                   *)
(*                                                                         *)
(* A step of a task is one call to an external service (the store or the   *)
(* model API) together with the local computation around it.  Tasks of     *)
(* different requests interleave at these steps (the handlers and tasks    *)
(* may run in different worker processes; the store row is the only thing  *)
(* they share).                                                            *)
(*                                                                         *)
(* Strings that the code builds by formatting are sequences of their       *)
(* parts, numbers in [0,1] are hundredths, JSON objects are records.       *)
(***************************************************************************)
EXTENDS Integers, Sequences, FiniteSets, Bags, TLC

\* ------------------------------------------------------------------ bounds

\* how many background tasks can be scheduled in one behaviour
MaxTasks == 2
\* the same, when the tasks run one after the other
MaxSeqTasks == 3
\* the same, when the responses of the handlers are observed
MaxApiTasks == 2

\* how many one-time passwords can be created in one behaviour
MaxOtps == 2

\* ------------------------------------------------------------- vocabulary

Jobs == {"a1"}
\* The file names of the upload requests of the model (one file, several).
UploadRequests == { <<"a.pdf">>, <<"a.pdf", "b.pdf">> }
\* The upload requests the handler refuses: no file, six files.
RefusedUploads == { <<>>, <<"a.pdf", "b.pdf", "c.pdf", "d.pdf", "e.pdf", "f.pdf">> }

None == "None"
EmptyDict == <<>>

ScoreNames ==
    {"red_flag_score", "completeness_score", "clarity_score", "fairness_score"}

\* The keys of DOMAIN_TAXONOMY.
ALLOWED_DOMAINS ==
    {"real_estate", "employment", "finance", "rental", "insurance", "legal_agreement"}

\* DOMAIN_TAXONOMY[domain]["intents"], by id (the entries the model's
\* classifier answers can select).
DOMAIN_TAXONOMY(domain) ==
    CASE domain = "rental" -> <<"tenant", "landlord", "reviewing", "other">>
      [] domain = "employment" -> <<"employee", "employer", "reviewing", "other">>
      [] OTHER -> <<"reviewing", "other">>

\* What the exception of a failed store call prints as.
StoreError == "store request failed"

\* --------------------------------------------------------------- variables

VARIABLES
    supabase,    \* TRUE iff SUPABASE_URL and SUPABASE_KEY are set
    temp_dir,    \* job id -> the *.pdf files under TEMP_DIR/<id>, in glob order
    metadata,    \* job id -> user_id of TEMP_DIR/<id>/.metadata.json
    analyses,    \* table "analyses": the stored rows, by id
    tasks,       \* the bag of background tasks scheduled so far
    response,    \* the response to the request served by the last step
    otps,        \* table "otps": the rows in the order of created_at
    users,       \* table "users": the emails that have a row
    sessions,    \* table "sessions": the rows, by token_hash
    jwt_expired, \* the access tokens whose exp lies in the past
    verifying    \* client -> its verify_otp call in flight, or NoCall

\* The state of the authentication service.
authvars == <<otps, users, sessions, jwt_expired, verifying>>

vars == <<supabase, temp_dir, metadata, analyses, tasks, response, authvars>>

\* No request was served by the last step (or none is observed).
NoResponse == [op |-> "none"]

\* ------------------------------------------------------------ the store

HasRow(table, id) == id \in DOMAIN table

\* update(fields).eq("id", id): changes the row with this id, if there is one.
Update(table, id, fields) ==
    IF ~HasRow(table, id) THEN table
    ELSE [table EXCEPT ![id] = fields @@ @]

\* insert(row): the id is the primary key, a second row with it is refused.
Insert(table, row) ==
    [k \in DOMAIN table \cup {row.id} |-> IF k = row.id THEN row ELSE table[k]]

\* The row that run_analysis_workflow inserts; columns the insert does not
\* name take the column default.
NewRow(analysis_id, language) ==
    [ id |-> analysis_id,
      document_names |-> <<>>,
      domain |-> "",
      intent |-> "",
      language |-> language,
      overall_score |-> 0,
      score_components |-> EmptyDict,
      red_flags |-> <<>>,
      scenarios |-> <<>>,
      key_terms |-> <<>>,
      missing_clauses |-> <<>>,
      openai_file_ids |-> <<>>,
      current_step |-> "uploading",
      \* defaults
      domain_confidence |-> 0,
      executive_summary |-> <<>>,
      document_summary |-> <<>>,
      main_obligations |-> <<>>,
      positive_notes |-> <<>>,
      follow_up_questions |-> <<>>,
      error |-> None,
      user_id |-> None,
      created_at |-> "now" ]

\* ------------------------------------------------------ the workflow state

\* The AnalysisState that run_analysis_workflow starts from.
InitialState(analysis_id, language) ==
    [ analysis_id |-> analysis_id,
      language |-> language,
      openai_file_ids |-> <<>>,
      files_metadata |-> <<>>,
      domain |-> "",
      domain_confidence |-> 0,
      intent_options |-> <<>>,
      selected_intent |-> "",
      custom_intent |-> None,
      smart_score |-> 0,
      score_breakdown |-> EmptyDict,
      executive_summary |-> <<>>,
      document_summary |-> <<>>,
      key_terms |-> <<>>,
      main_obligations |-> <<>>,
      red_flags |-> <<>>,
      scenarios |-> <<>>,
      missing_clauses |-> <<>>,
      positive_notes |-> <<>>,
      follow_up_questions |-> <<>>,
      document_names |-> <<>>,
      current_step |-> "uploading",
      errors |-> <<>> ]

ZeroBreakdown == [k \in ScoreNames |-> 0]

\* -------------------------------------------------- the document service

\* The id the Files API returns for an uploaded file.
FileId(name) == <<"file", name>>

\* The loop of OpenAIFileService.upload_files over file_paths[i..]; ok is the
\* set of positions whose files.create call succeeds.
RECURSIVE UploadLoop(_, _, _, _)
UploadLoop(file_paths, ok, i, acc) ==
    IF i > Len(file_paths) THEN acc
    ELSE IF i \in ok
    THEN UploadLoop(file_paths, ok, i + 1,
            [acc EXCEPT
               !.file_ids = Append(@, FileId(file_paths[i])),
               !.files_metadata = Append(@,
                   [name |-> file_paths[i],
                    openai_file_id |-> FileId(file_paths[i]),
                    status |-> "uploaded"])])
    ELSE UploadLoop(file_paths, ok, i + 1,
            [acc EXCEPT
               !.errors = Append(@, <<"Failed to upload", file_paths[i]>>)])

\* OpenAIFileService.upload_files: client is FALSE when no API key is set.
upload_files(file_paths, client, ok) ==
    IF ~client
    THEN [file_ids |-> <<>>, files_metadata |-> <<>>, success |-> FALSE,
          errors |-> << <<"OpenAI client not configured">> >>]
    ELSE LET r == UploadLoop(file_paths, ok, 1,
                     [file_ids |-> <<>>, files_metadata |-> <<>>, errors |-> <<>>])
         IN  [file_ids |-> r.file_ids,
              files_metadata |-> r.files_metadata,
              success |-> Len(r.file_ids) > 0,
              errors |-> r.errors]

\* file_upload_node without its check of what the glob finds.
file_upload_calls_always(file_paths) == TRUE

\* file_upload_node calls upload_files unless the glob finds nothing.
file_upload_calls(file_paths) == file_paths # <<>>

\* file_upload_node that names every file the glob finds, uploaded or not.
file_upload_node_all_names(state, file_paths, client, ok) ==
    IF ~file_upload_calls(file_paths)
    THEN [state EXCEPT
            !.openai_file_ids = <<>>,
            !.files_metadata = <<>>,
            !.document_names = <<>>,
            !.errors = Append(@, <<"No PDF files found">>),
            !.current_step = "error"]
    ELSE LET result == upload_files(file_paths, client, ok) IN
         IF ~result.success
         THEN [state EXCEPT
                 !.openai_file_ids = <<>>,
                 !.files_metadata = <<>>,
                 !.document_names = <<>>,
                 !.errors = @ \o result.errors,
                 !.current_step = "error"]
         ELSE [state EXCEPT
                 !.openai_file_ids = result.file_ids,
                 !.files_metadata = result.files_metadata,
                 !.document_names = file_paths,
                 !.current_step = "domain_detection"]

\* file_upload_node: file_paths is what the glob finds.
file_upload_node(state, file_paths, client, ok) ==
    IF ~file_upload_calls(file_paths)
    THEN [state EXCEPT
            !.openai_file_ids = <<>>,
            !.files_metadata = <<>>,
            !.document_names = <<>>,
            !.errors = Append(@, <<"No PDF files found">>),
            !.current_step = "error"]
    ELSE LET result == upload_files(file_paths, client, ok) IN
         IF ~result.success
         THEN [state EXCEPT
                 !.openai_file_ids = <<>>,
                 !.files_metadata = <<>>,
                 !.document_names = <<>>,
                 !.errors = @ \o result.errors,
                 !.current_step = "error"]
         ELSE [state EXCEPT
                 !.openai_file_ids = result.file_ids,
                 !.files_metadata = result.files_metadata,
                 !.document_names =
                     [k \in 1..Len(result.files_metadata) |-> result.files_metadata[k].name],
                 !.current_step = "domain_detection"]

\* ------------------------------------------------------- the model calls

\* How a call of the Responses API can end.  "no_client": the service was
\* built without an API key; "raise": the request raises; "unparsable":
\* _extract_json_payload finds no JSON object; "ok": a payload that
\* matches the schema.
FailureKinds == {"no_client", "raise", "unparsable"}

ApiError == "API request failed"

ClassifierPayloads ==
    { [domain |-> "rental", confidence |-> 90],
      [domain |-> "unsupported", confidence |-> 40] }

ClassifierOutcomes ==
    { [kind |-> k, payload |-> [domain |-> "", confidence |-> 0]] : k \in FailureKinds }
    \cup { [kind |-> "ok", payload |-> p] : p \in ClassifierPayloads }

\* detect_domain_with_files without the check of the parsed payload: what
\* the model sent is returned as it is.
detect_domain_unchecked(file_ids, outcome) ==
    IF outcome.kind = "no_client"
    THEN [domain |-> "unsupported", confidence |-> 0, reasoning |-> "API not configured"]
    ELSE IF outcome.kind = "raise"
    THEN [domain |-> "unsupported", confidence |-> 0, reasoning |-> ApiError]
    ELSE [domain |-> outcome.payload.domain,
          confidence |-> outcome.payload.confidence,
          reasoning |-> "model reasoning"]

\* AnalysisService.detect_domain_with_files
detect_domain_with_files(file_ids, outcome) ==
    IF outcome.kind = "no_client"
    THEN [domain |-> "unsupported", confidence |-> 0, reasoning |-> "API not configured"]
    ELSE IF file_ids = <<>>
    THEN [domain |-> "unsupported", confidence |-> 0, reasoning |-> "No files provided"]
    ELSE IF outcome.kind = "unparsable"
    THEN [domain |-> "unsupported", confidence |-> 0, reasoning |-> "Failed to parse response"]
    ELSE IF outcome.kind = "raise"
    THEN [domain |-> "unsupported", confidence |-> 0, reasoning |-> ApiError]
    ELSE [domain |-> outcome.payload.domain,
          confidence |-> outcome.payload.confidence,
          reasoning |-> "model reasoning"]

\* domain_detection_node calls detect_domain_with_files unless the state
\* has no file ids.
domain_detection_calls(state) == state.openai_file_ids # <<>>

\* domain_detection_node.  detect_domain_with_files catches every exception
\* of the call, so the node's own except branch has nothing to catch.
domain_detection_node(state, outcome) ==
    IF ~domain_detection_calls(state)
    THEN [state EXCEPT
            !.domain = "unsupported",
            !.domain_confidence = 0,
            !.intent_options = <<>>,
            !.errors = Append(@, <<"No files uploaded">>),
            !.current_step = "waiting_for_intent"]
    ELSE LET result == detect_domain_with_files(state.openai_file_ids, outcome) IN
         [state EXCEPT
            !.domain = result.domain,
            !.domain_confidence = result.confidence,
            !.intent_options =
                IF result.domain \in ALLOWED_DOMAINS
                THEN DOMAIN_TAXONOMY(result.domain) ELSE <<>>,
            !.current_step = "waiting_for_intent"]

\* _empty_analysis with a summary that leaves the reason out.
empty_analysis_silent(error_reason) ==
    [ smart_score |-> 0,
      score_breakdown |-> ZeroBreakdown,
      executive_summary |-> <<"Analysis could not be completed.">>,
      document_summary |-> <<>>,
      key_terms |-> <<>>,
      main_obligations |-> <<>>,
      red_flags |-> <<>>,
      scenarios |-> <<>>,
      missing_clauses |-> <<>>,
      positive_notes |-> <<>>,
      follow_up_questions |-> <<>> ]

\* AnalysisService._empty_analysis
empty_analysis(error_reason) ==
    [ smart_score |-> 0,
      score_breakdown |-> ZeroBreakdown,
      executive_summary |-> <<"Analysis could not be completed.", error_reason>>,
      document_summary |-> <<>>,
      key_terms |-> <<>>,
      main_obligations |-> <<>>,
      red_flags |-> <<>>,
      scenarios |-> <<>>,
      missing_clauses |-> <<>>,
      positive_notes |-> <<>>,
      follow_up_questions |-> <<>> ]

\* A payload of the analysis model that matches ANALYSIS_SCHEMA.  The text
\* names the domain and the intent it was written for.
AnalyzerPayload(file_ids, domain, intent) ==
    [ smart_score |-> 72,
      score_breakdown |->
          [k \in ScoreNames |-> IF k = "fairness_score" THEN 55 ELSE 80],
      executive_summary |-> <<"Summary for", domain, intent>>,
      document_summary |-> <<"Document summary">>,
      key_terms |-> << [term |-> "deposit", importance |-> "high"] >>,
      main_obligations |-> << "pay rent" >>,
      red_flags |-> << [id |-> "rf-1", severity |-> "high"] >>,
      scenarios |-> << [id |-> "sc-1", likelihood |-> "possible"] >>,
      missing_clauses |-> << "notice period" >>,
      positive_notes |-> << "clear term" >>,
      follow_up_questions |-> << "who pays repairs" >> ]

AnalyzerOutcomes == FailureKinds \cup {"ok"}

\* AnalysisService.analyze_document_with_files
analyze_document_with_files(file_ids, domain, intent, outcome) ==
    IF outcome = "no_client" THEN empty_analysis("API not configured")
    ELSE IF file_ids = <<>> THEN empty_analysis("No files provided")
    ELSE IF outcome = "unparsable" THEN empty_analysis("Failed to parse response")
    ELSE IF outcome = "raise" THEN empty_analysis(ApiError)
    ELSE AnalyzerPayload(file_ids, domain, intent)

ResultFields ==
    { "smart_score", "score_breakdown", "executive_summary", "document_summary",
      "key_terms", "main_obligations", "red_flags", "scenarios", "missing_clauses",
      "positive_notes", "follow_up_questions" }

\* analysis_node without its check of the file ids.
analysis_calls_always(state) == TRUE

\* analysis_node calls analyze_document_with_files unless the state has no
\* file ids.
analysis_calls(state) == state.openai_file_ids # <<>>

\* analysis_node.  analyze_document_with_files catches every exception of
\* the call, so the node's own except branch has nothing to catch.
analysis_node(state, outcome) ==
    IF ~analysis_calls(state)
    THEN [state EXCEPT
            !.smart_score = 0,
            !.score_breakdown = ZeroBreakdown,
            !.executive_summary =
                <<"Analysis could not be completed - no files available">>,
            !.document_summary = <<>>,
            !.key_terms = <<>>,
            !.main_obligations = <<>>,
            !.red_flags = <<>>,
            !.scenarios = <<>>,
            !.missing_clauses = <<>>,
            !.positive_notes = <<>>,
            !.follow_up_questions = <<>>,
            !.errors = Append(@, <<"No files available">>),
            !.current_step = "persist"]
    ELSE LET result == analyze_document_with_files(
                 state.openai_file_ids, state.domain, state.selected_intent, outcome)
         IN  [k \in DOMAIN state |->
                 IF k \in ResultFields THEN result[k]
                 ELSE IF k = "current_step" THEN "persist"
                 ELSE state[k]]

\* The columns persist_node writes.
PersistFields(state) ==
    [ domain |-> state.domain,
      domain_confidence |-> state.domain_confidence,
      intent |-> state.selected_intent,
      overall_score |-> state.smart_score,
      score_components |->
          [k \in ScoreNames |->
              IF k \in DOMAIN state.score_breakdown THEN state.score_breakdown[k] ELSE 0],
      executive_summary |-> state.executive_summary,
      document_summary |-> state.document_summary,
      key_terms |-> state.key_terms,
      main_obligations |-> state.main_obligations,
      red_flags |-> state.red_flags,
      scenarios |-> state.scenarios,
      missing_clauses |-> state.missing_clauses,
      positive_notes |-> state.positive_notes,
      follow_up_questions |-> state.follow_up_questions,
      document_names |-> state.document_names,
      openai_file_ids |-> state.openai_file_ids,
      current_step |-> "complete" ]

\* update_status: a failure of the store call is logged and dropped.
\* written is whether the call succeeds.
update_status(table, analysis_id, step, written) ==
    IF supabase /\ written
    THEN Update(table, analysis_id, [current_step |-> step])
    ELSE table

\* The state reconstruct_state starts from.
ReconstructDefault(analysis_id) ==
    [InitialState(analysis_id, "English") EXCEPT !.current_step = ""]

\* A reconstruct_state that uploads the first file again when the row has
\* no file ids.
reconstruct_state_uploads(analysis_id, table, readable) ==
    IF supabase /\ readable /\ HasRow(table, analysis_id)
    THEN [ReconstructDefault(analysis_id) EXCEPT
            !.domain = table[analysis_id].domain,
            !.domain_confidence = table[analysis_id].domain_confidence,
            !.document_names = table[analysis_id].document_names,
            !.openai_file_ids =
                IF table[analysis_id].openai_file_ids = <<>>
                THEN << FileId("a.pdf") >>
                ELSE table[analysis_id].openai_file_ids,
            !.language = table[analysis_id].language]
    ELSE ReconstructDefault(analysis_id)

\* reconstruct_state: readable is whether the select succeeds; .single()
\* raises when there is no row, and the failure is logged and dropped.
reconstruct_state(analysis_id, table, readable) ==
    IF supabase /\ readable /\ HasRow(table, analysis_id)
    THEN [ReconstructDefault(analysis_id) EXCEPT
            !.domain = table[analysis_id].domain,
            !.domain_confidence = table[analysis_id].domain_confidence,
            !.document_names = table[analysis_id].document_names,
            !.openai_file_ids = table[analysis_id].openai_file_ids,
            !.language = table[analysis_id].language]
    ELSE ReconstructDefault(analysis_id)

\* ------------------------------------------------------------------ tasks

NoCalls == [upload |-> 0, classifier |-> 0, analyzer |-> 0]

\* How often a node calls its service method.
Called(made) == IF made THEN 1 ELSE 0

\* What is kept of the workflow state of a task that has ended
\* (BackgroundTasks drops what the coroutine returns): the step of the
\* state, and of a phase that ended at step error also its file ids, its
\* domain and its error list.
Ended(state) ==
    IF state.current_step = "error"
    THEN [ current_step |-> state.current_step,
           openai_file_ids |-> state.openai_file_ids,
           domain |-> state.domain,
           errors |-> state.errors ]
    ELSE [current_step |-> state.current_step]

\* A background task: the coroutine added by BackgroundTasks.add_task.
\* calls counts the service methods the task has called, outcome is how
\* the last call of the model API ended.
NewTask(kind, analysis_id, selected_intent) ==
    [ kind |-> kind,
      analysis_id |-> analysis_id,
      selected_intent |-> selected_intent,
      pc |-> IF kind = "run" THEN "create_record" ELSE "reconstruct",
      state |-> IF kind = "run" THEN InitialState(analysis_id, "English")
                ELSE ReconstructDefault(analysis_id),
      raised |-> None,
      outcome |-> None,
      calls |-> NoCalls ]

Tasks == BagToSet(tasks)

Schedule(bag, t) == bag (+) SetToBag({t})

\* The bag with task t advanced to t2.
Advance(bag, t, t2) == (bag (-) SetToBag({t})) (+) SetToBag({t2})

Finished(t) == t.pc \in {"returned", "raised"}

\* return state
Return(t) == [t EXCEPT !.pc = "returned", !.state = Ended(@), !.outcome = None]

\* raise
Raise(t) == [t EXCEPT !.pc = "raised", !.state = Ended(@), !.outcome = None]

\* ---------------------------------------------------------------- phase 1

\* run_analysis_workflow, lines 36-79: the insert of the row.  A failure
\* (also: a row with this id exists) is logged and dropped.
run_create_record(t) ==
    /\ t.kind = "run" /\ t.pc = "create_record"
    /\ \E written \in BOOLEAN :
         analyses' =
            IF supabase /\ written /\ ~HasRow(analyses, t.analysis_id)
            THEN Insert(analyses, NewRow(t.analysis_id, "English"))
            ELSE analyses
    /\ tasks' = Advance(tasks, t, [t EXCEPT !.pc = "file_upload"])
    /\ response' = NoResponse
    /\ UNCHANGED <<authvars, supabase, temp_dir, metadata>>

\* run_analysis_workflow, lines 112-121: file_upload_node, update_status,
\* and the return on step error.
run_file_upload(t) ==
    /\ t.kind = "run" /\ t.pc = "file_upload"
    /\ LET file_paths == temp_dir[t.analysis_id] IN
       \E client \in BOOLEAN, ok \in SUBSET (1..Len(file_paths)), written \in BOOLEAN :
         LET state == file_upload_node(t.state, file_paths, client, ok)
             t2 == [t EXCEPT
                      !.state = state,
                      !.calls.upload = @ + Called(file_upload_calls(file_paths)),
                      !.pc = "domain_detection"]
         IN
         /\ client \/ ok = {}
         /\ analyses' = update_status(analyses, t.analysis_id,
                                      state.current_step, written)
         /\ tasks' = Advance(tasks, t,
                        IF state.current_step = "error" THEN Return(t2) ELSE t2)
    /\ response' = NoResponse
    /\ UNCHANGED <<authvars, supabase, temp_dir, metadata>>

\* run_analysis_workflow, lines 123-129: domain_detection_node, update_status.
run_domain_detection(t) ==
    /\ t.kind = "run" /\ t.pc = "domain_detection"
    /\ \E outcome \in ClassifierOutcomes, written \in BOOLEAN :
         LET state == domain_detection_node(t.state, outcome) IN
         /\ analyses' = update_status(analyses, t.analysis_id,
                                      state.current_step, written)
         /\ tasks' = Advance(tasks, t, [t EXCEPT
               !.state = state,
               !.calls.classifier = @ + Called(domain_detection_calls(t.state)),
               !.outcome = IF domain_detection_calls(t.state) THEN outcome.kind ELSE None,
               !.pc = "save_domain"])
    /\ response' = NoResponse
    /\ UNCHANGED <<authvars, supabase, temp_dir, metadata>>

\* The columns run_analysis_workflow writes at the end of phase 1.
DomainFields(state) ==
    [ domain |-> state.domain,
      domain_confidence |-> state.domain_confidence,
      document_names |-> state.document_names,
      openai_file_ids |-> state.openai_file_ids ]

\* run_analysis_workflow, lines 131-146: the update with the domain and the
\* file ids.  This call is not guarded: its exception reaches the except.
run_save_domain(t) ==
    /\ t.kind = "run" /\ t.pc = "save_domain"
    /\ \E written \in BOOLEAN :
         IF ~supabase
         THEN /\ tasks' = Advance(tasks, t, Return(t))
              /\ UNCHANGED analyses
         ELSE IF written
         THEN /\ analyses' = Update(analyses, t.analysis_id, DomainFields(t.state))
              /\ tasks' = Advance(tasks, t, Return(t))
         ELSE /\ tasks' = Advance(tasks, t,
                             [t EXCEPT !.pc = "on_exception", !.raised = StoreError])
              /\ UNCHANGED analyses
    /\ response' = NoResponse
    /\ UNCHANGED <<authvars, supabase, temp_dir, metadata>>

\* An except branch that writes the step and leaves the message out.
ErrorFields_step_only(e) == [current_step |-> "error"]

\* What the except branch of either phase writes.
ErrorFields(e) == [current_step |-> "error", error |-> e]

\* What the exception of a failed update inside the except branch prints as.
ErrorWriteError == "error update failed"

\* run_analysis_workflow, lines 148-155: the except branch writes the error
\* and raises again (when this write fails, its exception is raised
\* instead).
run_on_exception(t) ==
    /\ t.kind = "run" /\ t.pc = "on_exception"
    /\ \E written \in BOOLEAN :
         IF supabase /\ written
         THEN /\ analyses' = Update(analyses, t.analysis_id, ErrorFields(t.raised))
              /\ tasks' = Advance(tasks, t, Raise(t))
         ELSE /\ analyses' = analyses
              /\ tasks' = Advance(tasks, t,
                              [Raise(t) EXCEPT !.raised = ErrorWriteError])
    /\ response' = NoResponse
    /\ UNCHANGED <<authvars, supabase, temp_dir, metadata>>

\* ---------------------------------------------------------------- phase 2

\* continue_analysis_workflow, lines 169-175: reconstruct_state and the
\* intent of the call.
cont_reconstruct(t) ==
    /\ t.kind = "continue" /\ t.pc = "reconstruct"
    /\ \E readable \in BOOLEAN :
         tasks' = Advance(tasks, t, [t EXCEPT
            !.state =
                [reconstruct_state(t.analysis_id, analyses, readable)
                    EXCEPT !.selected_intent = t.selected_intent],
            !.pc = "analysis"])
    /\ response' = NoResponse
    /\ UNCHANGED <<authvars, supabase, temp_dir, metadata, analyses>>

\* continue_analysis_workflow, lines 178-184: analysis_node, update_status.
cont_analysis(t) ==
    /\ t.kind = "continue" /\ t.pc = "analysis"
    /\ \E outcome \in AnalyzerOutcomes, written \in BOOLEAN :
         LET state == analysis_node(t.state, outcome) IN
         /\ analyses' = update_status(analyses, t.analysis_id,
                                      state.current_step, written)
         /\ tasks' = Advance(tasks, t, [t EXCEPT
               !.state = state,
               !.calls.analyzer = @ + Called(analysis_calls(t.state)),
               !.outcome = IF analysis_calls(t.state) THEN outcome ELSE None,
               !.pc = "persist"])
    /\ response' = NoResponse
    /\ UNCHANGED <<authvars, supabase, temp_dir, metadata>>

\* persist_node: the update with the result and step complete; a failure of
\* the store call is logged and dropped, and the node returns step complete.
persist_node(table, state, written) ==
    IF supabase /\ written
    THEN Update(table, state.analysis_id, PersistFields(state))
    ELSE table

\* continue_analysis_workflow, line 189.
cont_persist(t) ==
    /\ t.kind = "continue" /\ t.pc = "persist"
    /\ \E written \in BOOLEAN :
         analyses' = persist_node(analyses, t.state, written)
    /\ tasks' = Advance(tasks, t, [t EXCEPT
          !.state.current_step = "complete",
          !.pc = "complete_status"])
    /\ response' = NoResponse
    /\ UNCHANGED <<authvars, supabase, temp_dir, metadata>>

\* continue_analysis_workflow, lines 190-200: update_status and the return.
cont_complete(t) ==
    /\ t.kind = "continue" /\ t.pc = "complete_status"
    /\ \E written \in BOOLEAN :
         analyses' = update_status(analyses, t.analysis_id,
                                   t.state.current_step, written)
    /\ tasks' = Advance(tasks, t, Return(t))
    /\ response' = NoResponse
    /\ UNCHANGED <<authvars, supabase, temp_dir, metadata>>

\* --------------------------------------------------------------- handlers

\* An id is fresh when nothing of the system carries it yet.
Fresh(id) ==
    /\ temp_dir[id] = <<>>
    /\ ~HasRow(analyses, id)
    /\ \A t \in Tasks : t.analysis_id # id

MAX_FILES_PER_UPLOAD == 5

\* Whom get_current_user_from_request finds behind a request: the id of a
\* row of table "users", or None (no cookie, a bad token, no such user).
Visitors == {None, "u1"}

\* upload_documents: a request with valid files saves them under
\* TEMP_DIR/<uuid4>, and the id of its user in .metadata.json.
upload_documents(id, files, user) ==
    /\ Fresh(id)
    /\ Len(files) <= MAX_FILES_PER_UPLOAD
    /\ Len(files) > 0
    /\ temp_dir' = [temp_dir EXCEPT ![id] = files]
    /\ metadata' = [metadata EXCEPT ![id] = user]
    /\ UNCHANGED <<authvars, supabase, analyses, tasks>>

\* start_analysis: schedules phase 1, for whatever id the path names.
start_analysis(id) ==
    /\ tasks' = Schedule(tasks, NewTask("run", id, ""))
    /\ UNCHANGED <<authvars, supabase, temp_dir, metadata, analyses>>

IntentIds == {"tenant", "other"}
CustomIntents == {None, "my own situation"}

\* select_intent without its validation of the intent.
select_intent_unvalidated(id, intent_id, custom_intent) ==
    /\ supabase
    /\ LET intent_value == IF intent_id = "other" THEN custom_intent ELSE intent_id IN
       /\ analyses' = Update(analyses, id,
                             [intent |-> intent_value, current_step |-> "analysis"])
       /\ tasks' = Schedule(tasks, NewTask("continue", id, intent_value))
    /\ UNCHANGED <<authvars, supabase, temp_dir, metadata>>

\* select_intent, a request the handler accepts: the update of the row and
\* the scheduling of phase 2.  (A request it answers 400 or 500 changes
\* nothing.)
select_intent(id, intent_id, custom_intent) ==
    /\ supabase
    /\ ~(intent_id = "other" /\ custom_intent = None)
    /\ LET intent_value == IF intent_id = "other" THEN custom_intent ELSE intent_id IN
       /\ analyses' = Update(analyses, id,
                             [intent |-> intent_value, current_step |-> "analysis"])
       /\ tasks' = Schedule(tasks, NewTask("continue", id, intent_value))
    /\ UNCHANGED <<authvars, supabase, temp_dir, metadata>>

\* ------------------------------------------------- responses and reads

\* HTTPException(status_code, detail)
HTTPException(op, status_code, detail) ==
    [op |-> op, code |-> status_code, detail |-> detail]

\* upload_documents, a request it refuses: too many files, or none.
upload_documents_refused(files) ==
    /\ Len(files) > MAX_FILES_PER_UPLOAD \/ Len(files) = 0
    /\ response' = HTTPException("upload", 400,
                      IF Len(files) > MAX_FILES_PER_UPLOAD
                      THEN "Maximum files allowed"
                      ELSE "At least one file is required")
    /\ UNCHANGED <<authvars, supabase, temp_dir, metadata, analyses, tasks>>

\* The UploadResponse of an accepted upload.
UploadResponse(id, files) ==
    [op |-> "upload", code |-> 200, analysis_id |-> id, file_count |-> Len(files)]

\* What start_analysis returns.
StartResponse(id) ==
    [op |-> "start", code |-> 200, status |-> "started", analysis_id |-> id]

\* select_intent, a request it refuses: no store, "other" without a custom
\* intent, or an update of the row that raises (stored is FALSE).
select_intent_refused(id, intent_id, custom_intent, stored) ==
    /\ \/ ~supabase
       \/ intent_id = "other" /\ custom_intent = None
       \/ ~stored
    /\ response' =
          IF ~supabase
          THEN HTTPException("select_intent", 500, "Database not configured")
          ELSE IF intent_id = "other" /\ custom_intent = None
          THEN HTTPException("select_intent", 400, "Custom intent required")
          ELSE HTTPException("select_intent", 500, StoreError)
    /\ UNCHANGED <<authvars, supabase, temp_dir, metadata, analyses, tasks>>

\* The IntentSelectionResponse of an accepted request.
IntentSelectionResponse ==
    [op |-> "select_intent", code |-> 200, success |-> TRUE, next_step |-> "analysis"]

\* calculate_progress: STEP_PROGRESS.get(step, 0)
calculate_progress(step) ==
    CASE step = "pending" -> 0
      [] step = "ingestion" -> 20
      [] step = "vectorization" -> 40
      [] step = "domain_detection" -> 50
      [] step = "decision" -> 55
      [] step = "question_generation" -> 60
      [] step = "waiting_for_answers" -> 65
      [] step = "waiting_for_intent" -> 55
      [] step = "analysis" -> 75
      [] step = "scoring" -> 90
      [] step = "format_response" -> 95
      [] step = "persist" -> 98
      [] step = "complete" -> 100
      [] step = "error" -> 0
      [] OTHER -> 0

\* A status that does not look at the stored step.
StatusOf_processing(current_step) == "processing"

\* The status get_analysis_status gives for a stored step.
StatusOf(current_step) ==
    IF current_step = "complete" THEN "complete"
    ELSE IF current_step = "waiting_for_intent" THEN "awaiting_intent"
    ELSE "processing"

\* The fallback of get_analysis_status.
PendingStatus ==
    [status |-> "pending", current_step |-> "pending", progress |-> 0, error |-> None]

\* The AnalysisStatus that get_analysis_status returns; readable is whether
\* the select succeeds (.single() raises when there is no row).
AnalysisStatus(table, id, readable) ==
    IF supabase /\ readable /\ HasRow(table, id)
    THEN [ status |-> StatusOf(table[id].current_step),
           current_step |-> table[id].current_step,
           progress |-> calculate_progress(table[id].current_step),
           error |-> table[id].error ]
    ELSE PendingStatus

\* get_analysis_status
get_analysis_status(id) ==
    /\ \E readable \in BOOLEAN :
         response' = [op |-> "status", code |-> 200, analysis_id |-> id,
                      body |-> AnalysisStatus(analyses, id, readable)]
    /\ UNCHANGED <<authvars, supabase, temp_dir, metadata, analyses, tasks>>

\* get_analysis_results without its check of the step.
AnalysisResults_unchecked(data) ==
    [ id |-> data.id,
      status |-> "complete",
      domain |-> data.domain,
      intent |-> data.intent,
      overall_score |-> data.overall_score,
      score_components |-> data.score_components,
      document_summary |-> data.document_summary,
      key_terms |-> data.key_terms,
      main_obligations |-> data.main_obligations,
      red_flags |-> data.red_flags,
      document_names |-> data.document_names,
      created_at |-> data.created_at ]

\* What get_analysis_results returns for a row, by its current_step.
AnalysisResults(data) ==
    IF data.current_step # "complete"
    THEN [ id |-> data.id,
           status |-> "processing",
           current_step |-> data.current_step,
           progress |-> calculate_progress(data.current_step) ]
    ELSE [ id |-> data.id,
           status |-> "complete",
           domain |-> data.domain,
           intent |-> data.intent,
           overall_score |-> data.overall_score,
           score_components |-> data.score_components,
           document_summary |-> data.document_summary,
           key_terms |-> data.key_terms,
           main_obligations |-> data.main_obligations,
           red_flags |-> data.red_flags,
           document_names |-> data.document_names,
           created_at |-> data.created_at ]

\* get_analysis_results
get_analysis_results(id) ==
    /\ \E readable \in BOOLEAN :
         response' =
            IF ~supabase
            THEN HTTPException("results", 500, "Database not configured")
            ELSE IF ~(readable /\ HasRow(analyses, id))
            THEN HTTPException("results", 500, StoreError)
            ELSE [op |-> "results", code |-> 200, analysis_id |-> id,
                  body |-> AnalysisResults(analyses[id])]
    /\ UNCHANGED <<authvars, supabase, temp_dir, metadata, analyses, tasks>>

\* The table without the row of this id.
Delete(table, id) == [k \in DOMAIN table \ {id} |-> table[k]]

\* A delete_analysis that does not compare the user ids.
Authorized_anyone(data, user) == TRUE

\* Whether delete_analysis lets this user delete this row.
Authorized(data, user) == data.user_id = user

\* delete_analysis: user is whom get_current_user_from_request finds,
\* readable and deleted are whether the select and the delete succeed.
delete_analysis(id, user, readable, deleted) ==
    /\ (user # None) => supabase
    /\ IF user = None
       THEN /\ response' = HTTPException("delete", 401, "Not authenticated")
            /\ UNCHANGED analyses
       ELSE IF ~(readable /\ HasRow(analyses, id))
       THEN /\ response' = HTTPException("delete", 500, StoreError)
            /\ UNCHANGED analyses
       ELSE IF ~Authorized(analyses[id], user)
       THEN /\ response' = HTTPException("delete", 403, "Not authorized")
            /\ UNCHANGED analyses
       ELSE IF ~deleted
       THEN /\ response' = HTTPException("delete", 500, StoreError)
            /\ UNCHANGED analyses
       ELSE /\ response' = [op |-> "delete", code |-> 200, success |-> TRUE]
            /\ analyses' = Delete(analyses, id)
    /\ UNCHANGED <<authvars, supabase, temp_dir, metadata, tasks>>


\* --------------------------------------------------------- authentication

\* The emails of the requests, as typed, and the codes: those that
\* generate_otp draws and those that a client sends.
RequestEmails == {"ann@x.io", " Ann@X.io"}
Codes == {"111111", "222222"}
\* The clients whose verify_otp calls can be in flight at the same time.
Clients == {"c1", "c2"}

\* settings.OTP_MAX_ATTEMPTS
OTP_MAX_ATTEMPTS == 3
\* create_otp: at most this many OTPs per hour and email
OTP_RATE_LIMIT == 5

\* email.lower().strip()
lower_strip(email) ==
    CASE email = " Ann@X.io" -> "ann@x.io"
      [] OTHER -> email

\* hash_token: the SHA-256 digest of the token.
hash_token(token) == <<"sha256", token>>

\* The id the store gives the users row of an email.
UserId(email) == <<"user", email>>

\* No access_token cookie, no payload, no user.
NoToken == [sub |-> UserId(None), exp |-> 0]
NoUser == [id |-> UserId(None), email |-> None]

\* create_access_token: the signed JWT of sub and exp.
create_access_token(user_id, exp) == [sub |-> user_id, exp |-> exp]

\* verify_access_token: the payload, or nothing when jwt.decode raises
\* (here: exp has passed).
verify_access_token(token) ==
    IF token \in jwt_expired THEN NoToken ELSE token

\* The otps row that create_otp inserts (used and attempts are the
\* defaults of the columns); its id is its position in the table.
NewOtp(email, code) ==
    [email |-> email, code |-> code, used |-> FALSE, attempts |-> 0, expired |-> FALSE]

\* verify_otp, lines 83-85: the most recent unused OTP of the email, 0 when
\* there is none.
MostRecentUnused(table, email) ==
    LET unused == {i \in 1..Len(table) : table[i].email = email /\ ~table[i].used}
    IN  IF unused = {} THEN 0
        ELSE CHOOSE i \in unused : \A j \in unused : j <= i

\* request_otp and create_otp: stored is whether the store calls succeed,
\* sent whether send_otp_email does.
request_otp(email_in, code, stored, sent) ==
    LET email == lower_strip(email_in)
        recent_otps == {i \in 1..Len(otps) : otps[i].email = email}
    IN
    /\ Len(otps) < MaxOtps
    /\ IF ~supabase
       THEN /\ response' = HTTPException("request_otp", 429, "Database not configured")
            /\ UNCHANGED otps
       ELSE IF ~stored
       THEN /\ response' = HTTPException("request_otp", 429,
                                         "Failed to create verification code")
            /\ UNCHANGED otps
       ELSE IF Cardinality(recent_otps) >= OTP_RATE_LIMIT
       THEN /\ response' = HTTPException("request_otp", 429, "Too many OTP requests")
            /\ UNCHANGED otps
       ELSE /\ otps' = Append(otps, NewOtp(email, code))
            /\ response' =
                  IF sent
                  THEN [op |-> "request_otp", code |-> 200, email |-> email]
                  ELSE HTTPException("request_otp", 500,
                                     "Failed to send verification email")
    /\ UNCHANGED <<supabase, temp_dir, metadata, analyses, tasks,
                   users, sessions, jwt_expired, verifying>>

NoCall == [pc |-> "none"]

\* verify_otp, lines 75-90: the select of the OTP row.  readable is whether
\* the select succeeds.
verify_otp_select(c, email_in, code, readable) ==
    LET email == lower_strip(email_in)
        found == MostRecentUnused(otps, email)
    IN
    /\ verifying[c].pc = "none"
    /\ IF ~supabase
       THEN /\ response' = HTTPException("verify_otp", 400, "Database not configured")
            /\ UNCHANGED verifying
       ELSE IF ~readable
       THEN /\ response' = HTTPException("verify_otp", 400, "Failed to verify code")
            /\ UNCHANGED verifying
       ELSE IF found = 0
       THEN /\ response' = HTTPException("verify_otp", 400, "No verification code found")
            /\ UNCHANGED verifying
       ELSE /\ verifying' = [verifying EXCEPT ![c] =
                  [ pc |-> "selected", email |-> email, code |-> code,
                    otp_record |-> [ id |-> found,
                                     code |-> otps[found].code,
                                     attempts |-> otps[found].attempts ] ]]
            /\ response' = NoResponse
    /\ UNCHANGED <<supabase, temp_dir, metadata, analyses, tasks,
                   otps, users, sessions, jwt_expired>>

\* verify_otp, lines 92-134, and verify_otp_route, lines 87-118: the checks
\* of the row that was selected, the update it leads to, and for a correct
\* code the user and the session.  written is whether the update of the OTP
\* row succeeds, session_stored whether create_session does.
verify_otp_decide(c, written, session_stored) ==
    LET call == verifying[c]
        otp_record == call.otp_record
        id == otp_record.id
        user_id == UserId(call.email)
        access_token == create_access_token(user_id, Cardinality(sessions) + 1)
    IN
    /\ call.pc = "selected"
    /\ verifying' = [verifying EXCEPT ![c] = NoCall]
    /\ IF ~written
       THEN /\ response' = HTTPException("verify_otp", 400, "Failed to verify code")
            /\ UNCHANGED <<otps, users, sessions>>
       ELSE IF otps[id].expired
       THEN /\ otps' = [otps EXCEPT ![id].used = TRUE]
            /\ response' = HTTPException("verify_otp", 400, "Verification code has expired")
            /\ UNCHANGED <<users, sessions>>
       ELSE IF otp_record.attempts >= OTP_MAX_ATTEMPTS
       THEN /\ otps' = [otps EXCEPT ![id].used = TRUE]
            /\ response' = HTTPException("verify_otp", 400, "Too many failed attempts")
            /\ UNCHANGED <<users, sessions>>
       ELSE IF otp_record.code # call.code
       THEN /\ otps' = [otps EXCEPT ![id].attempts = otp_record.attempts + 1]
            /\ response' = HTTPException("verify_otp", 400, "Invalid code")
            /\ UNCHANGED <<users, sessions>>
       ELSE /\ otps' = [otps EXCEPT ![id].used = TRUE]
            /\ users' = users \cup {call.email}
            /\ IF session_stored
               THEN /\ sessions' = sessions \cup
                          { [ token_hash |-> hash_token(access_token),
                              user_id |-> user_id,
                              is_valid |-> TRUE ] }
                    /\ response' = [ op |-> "verify_otp", code |-> 200,
                                     user |-> [id |-> user_id, email |-> call.email],
                                     token |-> access_token ]
               ELSE /\ response' = HTTPException("verify_otp", 500,
                                                 "Failed to create session")
                    /\ UNCHANGED sessions
    /\ UNCHANGED <<supabase, temp_dir, metadata, analyses, tasks, jwt_expired>>

\* The access tokens that were handed to a client.
IssuedTokens == {s.token_hash[2] : s \in sessions}

\* invalidate_session: a failure of the update is dropped.
invalidate_session(table, token, written) ==
    IF supabase /\ written
    THEN { [s EXCEPT !.is_valid = IF s.token_hash = hash_token(token) THEN FALSE ELSE @] :
              s \in table }
    ELSE table

\* logout
logout(token, written) ==
    /\ sessions' = IF token # NoToken
                   THEN invalidate_session(sessions, token, written)
                   ELSE sessions
    /\ response' = [op |-> "logout", code |-> 200, success |-> TRUE]
    /\ UNCHANGED <<supabase, temp_dir, metadata, analyses, tasks,
                   otps, users, jwt_expired, verifying>>

\* get_current_user_from_request: token is the access_token cookie,
\* readable is whether the select of the user succeeds.
get_current_user_from_request(token, readable) ==
    IF token = NoToken THEN NoUser
    ELSE LET payload == verify_access_token(token) IN
         IF payload = NoToken THEN NoUser
         ELSE IF ~supabase \/ ~readable THEN NoUser
         ELSE IF \E email \in users : UserId(email) = payload.sub
         THEN [ id |-> payload.sub,
                email |-> CHOOSE email \in users : UserId(email) = payload.sub ]
         ELSE NoUser

\* get_current_user, GET /auth/me
get_current_user(token, readable) ==
    /\ LET user == get_current_user_from_request(token, readable) IN
       response' = IF user = NoUser
                   THEN HTTPException("me", 401, "Not authenticated")
                   ELSE [op |-> "me", code |-> 200, user |-> user]
    /\ UNCHANGED <<supabase, temp_dir, metadata, analyses, tasks, authvars>>

\* Time passes the exp of an access token.
TokenExpires(token) ==
    /\ token \notin jwt_expired
    /\ jwt_expired' = jwt_expired \cup {token}
    /\ response' = NoResponse
    /\ UNCHANGED <<supabase, temp_dir, metadata, analyses, tasks,
                   otps, users, sessions, verifying>>

\* Time passes the expires_at of the oldest OTP that has not expired (all
\* OTPs live equally long).
OtpExpires ==
    /\ \E i \in 1..Len(otps) :
          /\ ~otps[i].expired
          /\ \A j \in 1..(i - 1) : otps[j].expired
          /\ otps' = [otps EXCEPT ![i].expired = TRUE]
    /\ response' = NoResponse
    /\ UNCHANGED <<supabase, temp_dir, metadata, analyses, tasks,
                   users, sessions, jwt_expired, verifying>>


\* ------------------------------------------------------------ the system

Init ==
    /\ supabase \in BOOLEAN
    /\ temp_dir = [id \in Jobs |-> <<>>]
    /\ metadata = [id \in Jobs |-> None]
    /\ analyses = <<>>
    /\ tasks = EmptyBag
    /\ response = NoResponse
    /\ otps = <<>>
    /\ users = {}
    /\ sessions = {}
    /\ jwt_expired = {}
    /\ verifying = [c \in Clients |-> NoCall]

\* A step of a background task.
TaskStep ==
    \/ \E t \in Tasks : run_create_record(t)
    \/ \E t \in Tasks : run_file_upload(t)
    \/ \E t \in Tasks : run_domain_detection(t)
    \/ \E t \in Tasks : run_save_domain(t)
    \/ \E t \in Tasks : run_on_exception(t)
    \/ \E t \in Tasks : cont_reconstruct(t)
    \/ \E t \in Tasks : cont_analysis(t)
    \/ \E t \in Tasks : cont_persist(t)
    \/ \E t \in Tasks : cont_complete(t)

\* Requests and tasks interleave freely (several worker processes).
\* The uploads are those of guests (the workflow does not read
\* .metadata.json), and the responses of the handlers are not observed.
Next ==
    \/ \E id \in Jobs, files \in UploadRequests :
          upload_documents(id, files, None) /\ response' = NoResponse
    \/ \E id \in Jobs :
          /\ BagCardinality(tasks) < MaxTasks
          /\ start_analysis(id)
          /\ response' = NoResponse
    \/ \E id \in Jobs, intent_id \in IntentIds, custom_intent \in CustomIntents :
          /\ BagCardinality(tasks) < MaxTasks
          /\ select_intent(id, intent_id, custom_intent)
          /\ response' = NoResponse
    \/ TaskStep

Spec == Init /\ [][Next]_vars

\* One worker process: a task runs from its first step to its last without
\* a suspension point (the service clients it calls are synchronous), so a
\* request is served only when no task is running.
Idle == \A t \in Tasks : Finished(t)

SeqNext ==
    \/ \E id \in Jobs, files \in UploadRequests :
          Idle /\ upload_documents(id, files, None) /\ response' = NoResponse
    \/ \E id \in Jobs :
          /\ Idle
          /\ BagCardinality(tasks) < MaxSeqTasks
          /\ start_analysis(id)
          /\ response' = NoResponse
    \/ \E id \in Jobs, intent_id \in IntentIds, custom_intent \in CustomIntents :
          /\ Idle
          /\ BagCardinality(tasks) < MaxSeqTasks
          /\ select_intent(id, intent_id, custom_intent)
          /\ response' = NoResponse
    \/ TaskStep

SeqSpec == Init /\ [][SeqNext]_vars

\* A client that keeps to the protocol: it starts an uploaded job once and
\* sends an intent when it reads step waiting_for_intent.
Started(id) == \E t \in Tasks : t.kind = "run" /\ t.analysis_id = id

ClientStart ==
    \E id \in Jobs :
        ~Started(id) /\ start_analysis(id) /\ response' = NoResponse

ClientIntent ==
    \E id \in Jobs, intent_id \in IntentIds, custom_intent \in CustomIntents :
        /\ HasRow(analyses, id)
        /\ analyses[id].current_step = "waiting_for_intent"
        /\ select_intent(id, intent_id, custom_intent)
        /\ response' = NoResponse

LiveNext ==
    \/ \E id \in Jobs, files \in UploadRequests :
          upload_documents(id, files, None) /\ response' = NoResponse
    \/ ClientStart
    \/ ClientIntent
    \/ TaskStep

\* Every scheduled task keeps running until it ends, and the client does
\* send its intent.
LiveSpec ==
    Init /\ [][LiveNext]_vars /\ WF_vars(TaskStep) /\ WF_vars(ClientIntent)

\* The requests that change the store or schedule a task, each with its
\* response.  One worker runs the tasks: a request that schedules a task
\* is served when none is running.
ApiNext ==
    \/ \E id \in Jobs, files \in UploadRequests \cup RefusedUploads,
          user \in Visitors :
          /\ Idle
          /\ (user # None) => supabase
          /\ upload_documents(id, files, user)
          /\ response' = UploadResponse(id, files)
    \/ \E files \in RefusedUploads : upload_documents_refused(files)
    \/ \E id \in Jobs :
          /\ Idle
          /\ BagCardinality(tasks) < MaxApiTasks
          /\ start_analysis(id)
          /\ response' = StartResponse(id)
    \/ \E id \in Jobs, intent_id \in IntentIds, custom_intent \in CustomIntents :
          /\ Idle
          /\ BagCardinality(tasks) < MaxApiTasks
          /\ select_intent(id, intent_id, custom_intent)
          /\ response' = IntentSelectionResponse
    \/ \E id \in Jobs, intent_id \in IntentIds, custom_intent \in CustomIntents,
          stored \in BOOLEAN :
          select_intent_refused(id, intent_id, custom_intent, stored)
    \/ \E id \in Jobs, user \in Visitors, readable \in BOOLEAN, deleted \in BOOLEAN :
          delete_analysis(id, user, readable, deleted)
    \/ TaskStep

ApiSpec == Init /\ [][ApiNext]_vars

\* The reads of a client that polls: the status and the results of a job,
\* at any time, next to the guests' requests and the tasks of SeqSpec.
PollNext ==
    \/ \E id \in Jobs, files \in UploadRequests :
          Idle /\ upload_documents(id, files, None) /\ response' = NoResponse
    \/ \E id \in Jobs :
          /\ Idle
          /\ BagCardinality(tasks) < MaxApiTasks
          /\ start_analysis(id)
          /\ response' = NoResponse
    \/ \E id \in Jobs, intent_id \in IntentIds, custom_intent \in CustomIntents :
          /\ Idle
          /\ BagCardinality(tasks) < MaxApiTasks
          /\ select_intent(id, intent_id, custom_intent)
          /\ response' = NoResponse
    \/ \E id \in Jobs : get_analysis_status(id)
    \/ \E id \in Jobs : get_analysis_results(id)
    \/ TaskStep

PollSpec == Init /\ [][PollNext]_vars

\* The requests of the authentication routes.  The calls of verify_otp of
\* two clients interleave at their store calls (several worker processes).
AuthNext ==
    \/ \E email \in RequestEmails, code \in Codes, stored \in BOOLEAN, sent \in BOOLEAN :
          request_otp(email, code, stored, sent)
    \/ \E c \in Clients, email \in RequestEmails, code \in Codes, readable \in BOOLEAN :
          verify_otp_select(c, email, code, readable)
    \/ \E c \in Clients, written \in BOOLEAN, session_stored \in BOOLEAN :
          verify_otp_decide(c, written, session_stored)
    \/ OtpExpires

AuthSpec == Init /\ [][AuthNext]_vars

\* No call of verify_otp is in flight.
AuthIdle == \A c \in Clients : verifying[c].pc = "none"

\* The requests of a client that signs in, asks who it is and logs out,
\* while time passes.  One worker process: a request is served from its
\* first store call to its last before the next one is.
SessionNext ==
    \/ \E email \in RequestEmails, code \in Codes, stored \in BOOLEAN, sent \in BOOLEAN :
          AuthIdle /\ request_otp(email, code, stored, sent)
    \/ \E email \in RequestEmails, code \in Codes, readable \in BOOLEAN :
          verify_otp_select("c1", email, code, readable)
    \/ \E written \in BOOLEAN, session_stored \in BOOLEAN :
          verify_otp_decide("c1", written, session_stored)
    \/ \E token \in IssuedTokens \cup {NoToken}, written \in BOOLEAN :
          AuthIdle /\ logout(token, written)
    \/ \E token \in IssuedTokens \cup {NoToken}, readable \in BOOLEAN :
          AuthIdle /\ get_current_user(token, readable)
    \/ \E token \in IssuedTokens : TokenExpires(token)

SessionSpec == Init /\ [][SessionNext]_vars

\* ================================================================ claims

Row(id) == analyses[id]

\* persist_node has written a result into the row: the insert leaves
\* score_components empty, persist_node writes its four scores.
HasResult(row) == DOMAIN row.score_components = ScoreNames

ListFields ==
    { "key_terms", "main_obligations", "red_flags", "scenarios", "missing_clauses",
      "positive_notes", "follow_up_questions" }

Contains(text, part) == \E k \in 1..Len(text) : text[k] = part

\* The reason _empty_analysis is given for each way the call can fail.
FailureReason(kind) ==
    CASE kind = "no_client" -> "API not configured"
      [] kind = "unparsable" -> "Failed to parse response"
      [] kind = "raise" -> ApiError

\* A workflow state whose result is the all-zero, all-empty one.
ZeroResult(state) ==
    /\ state.smart_score = 0
    /\ state.score_breakdown = ZeroBreakdown
    /\ \A f \in ListFields : state[f] = <<>>

\* The same of the columns of a row.
ZeroStored(row) ==
    /\ row.overall_score = 0
    /\ row.score_components = ZeroBreakdown
    /\ \A f \in ListFields : row[f] = <<>>

\* Phase 1 of the job has run to its end and written the file ids.
PhaseOneStored(id) ==
    \E t \in Tasks :
        /\ t.kind = "run" /\ t.analysis_id = id
        /\ t.pc = "returned" /\ t.state.current_step = "waiting_for_intent"

\* A phase-2 task that has begun to execute and has not returned.
Continuing(t) == t.kind = "continue" /\ t.pc \in {"analysis", "persist", "complete_status"}

\* The path of current_step; StepIndex is the position of a step on it, 0
\* for a step that is not on it (error).
StepPath ==
    <<"uploading", "domain_detection", "waiting_for_intent", "analysis", "persist", "complete">>

StepIndex(step) ==
    IF \E k \in 1..Len(StepPath) : StepPath[k] = step
    THEN CHOOSE k \in 1..Len(StepPath) : StepPath[k] = step
    ELSE 0

\* C1: the stored current_step never moves back on the path uploading ->
\* domain_detection -> waiting_for_intent -> analysis -> persist -> complete:
\* no step of the system replaces a stored step by an earlier one.
C1_StepNeverMovesBack ==
    [][\A id \in Jobs :
          (HasRow(analyses, id) /\ HasRow(analyses', id)) =>
              LET before == StepIndex(analyses[id].current_step)
                  after == StepIndex(analyses'[id].current_step)
              IN  ~(before > 0 /\ after > 0 /\ after < before)]_vars

\* C2: every job that was started ends with a stored current_step of
\* complete or error (the store being configured).
C2_StartedJobEnds ==
    \A id \in Jobs :
        [](( supabase /\ Started(id)) =>
              <>(HasRow(analyses, id)
                    /\ analyses[id].current_step \in {"complete", "error"}))

\* C3: when the classifier call of phase 1 fails (no client, an exception,
\* an unparsable answer), the state after domain detection has domain
\* "unsupported", confidence 0 and step waiting_for_intent, nothing was
\* raised, and these are the values phase 1 goes on to write.
C3_ClassifierFailureDegrades ==
    \A t \in Tasks :
        (t.kind = "run" /\ t.pc = "save_domain" /\ t.outcome \in FailureKinds) =>
            /\ t.state.domain = "unsupported"
            /\ t.state.domain_confidence = 0
            /\ t.state.current_step = "waiting_for_intent"
            /\ t.raised = None
            /\ DomainFields(t.state).domain = "unsupported"
            /\ DomainFields(t.state).domain_confidence = 0

\* C3, the case: a phase-1 task whose upload succeeded and whose classifier
\* call failed stands after domain detection.
C3_Witness ==
    \E t \in Tasks :
        /\ t.kind = "run" /\ t.pc = "save_domain"
        /\ t.outcome \in FailureKinds
        /\ t.state.openai_file_ids # <<>>
        /\ HasRow(analyses, t.analysis_id)
        /\ Row(t.analysis_id).current_step = "waiting_for_intent"

\* C4: when the analyzer call of phase 2 fails, the task does not abort:
\* its state and the columns persist_node writes have score 0, the four
\* sub-scores 0, empty finding lists and a summary that contains the
\* reason of the failure, and its step is persist after the analysis and
\* complete after persist_node.
C4_AnalyzerFailureCompletes ==
    \A t \in Tasks :
        (t.kind = "continue" /\ t.pc \in {"persist", "complete_status"}
            /\ t.outcome \in FailureKinds) =>
            /\ t.raised = None
            /\ ZeroResult(t.state)
            /\ Contains(t.state.executive_summary, FailureReason(t.outcome))
            /\ t.state.current_step = (IF t.pc = "persist" THEN "persist" ELSE "complete")
            /\ ZeroStored(PersistFields(t.state))
            /\ Contains(PersistFields(t.state).executive_summary, FailureReason(t.outcome))
            /\ PersistFields(t.state).current_step = "complete"

\* C4, the case: a phase-2 task whose analyzer call failed has run
\* persist_node, and the row is complete with the degraded result.
C4_Witness ==
    \E t \in Tasks :
        /\ t.kind = "continue" /\ t.pc = "complete_status"
        /\ t.outcome \in FailureKinds
        /\ HasRow(analyses, t.analysis_id)
        /\ Row(t.analysis_id).current_step = "complete"
        /\ ZeroStored(Row(t.analysis_id))
        /\ Contains(Row(t.analysis_id).executive_summary, FailureReason(t.outcome))

\* C5: a row whose current_step is error has a non-empty error string.
C5_ErrorCarriesMessage ==
    \A id \in Jobs :
        (HasRow(analyses, id) /\ Row(id).current_step = "error") =>
            (Row(id).error # None /\ Row(id).error # "")

\* C6: a row whose current_step is complete carries the result written by
\* persist_node.
C6_CompleteCarriesResult ==
    \A id \in Jobs :
        (HasRow(analyses, id) /\ Row(id).current_step = "complete") =>
            HasResult(Row(id))

\* The columns phase 2 is to leave alone.
Frame(row) ==
    [ domain |-> row.domain,
      domain_confidence |-> row.domain_confidence,
      openai_file_ids |-> row.openai_file_ids,
      document_names |-> row.document_names ]

\* A step of a phase-2 task.
ContinueStep ==
    \E t \in Tasks :
        cont_reconstruct(t) \/ cont_analysis(t) \/ cont_persist(t) \/ cont_complete(t)

\* C7: no step of a phase-2 task changes the stored domain,
\* domain_confidence, file ids or document names of a row.
C7_ContinueKeepsDomainAndReferences ==
    [][ContinueStep =>
          \A id \in Jobs :
              HasRow(analyses, id) =>
                  (HasRow(analyses', id) /\ Frame(analyses'[id]) = Frame(analyses[id]))]_vars

\* The file ids of a job: those of its row, or else those a running phase 1
\* of the job holds and has not written yet.
HasReferences(id) ==
    \/ Row(id).openai_file_ids # <<>>
    \/ \E t \in Tasks :
          /\ t.kind = "run" /\ t.analysis_id = id
          /\ t.pc \in {"domain_detection", "save_domain"}
          /\ t.state.openai_file_ids # <<>>

\* C8: a row whose current_step is past uploading belongs to a job that has
\* file ids.
C8_PastUploadHasReferences ==
    \A id \in Jobs :
        (HasRow(analyses, id)
            /\ Row(id).current_step \in
                 {"domain_detection", "waiting_for_intent", "analysis", "persist", "complete"})
        => HasReferences(id)

C10_PhaseOneBeforePhaseTwo ==
    \A t \in Tasks :
        Continuing(t) =>
            \E r \in Tasks : r.kind = "run" /\ r.analysis_id = t.analysis_id /\ Finished(r)

\* The percentage the progress mapping is to give for a step of the path,
\* and for error.
ClaimedProgress(step) ==
    CASE step = "uploading" -> 20
      [] step = "domain_detection" -> 50
      [] step = "waiting_for_intent" -> 55
      [] step = "analysis" -> 75
      [] step = "persist" -> 98
      [] step = "complete" -> 100
      [] step = "error" -> 0

\* C11: the progress reported for a stored step is uploading 20,
\* domain_detection 50, waiting_for_intent 55, analysis 75, persist 98,
\* complete 100 and error 0, and it grows strictly along the path.
C11_ProgressOfSteps ==
    /\ \A i, j \in 1..Len(StepPath) :
          i < j => calculate_progress(StepPath[i]) < calculate_progress(StepPath[j])
    /\ (response.op = "status" /\ response.body.current_step # "pending") =>
          response.body.progress = ClaimedProgress(response.body.current_step)

\* C12: a phase 1 of a job with no PDF file under its directory does not
\* get past the upload step; it ends by returning step error with a
\* non-empty error list, no file ids and no domain, it has called neither
\* upload_files nor the classifier, and the row of the job has no file ids
\* and no domain.
C12_EmptyFileSetEndsInError ==
    \A t \in Tasks :
        (t.kind = "run" /\ temp_dir[t.analysis_id] = <<>>) =>
            /\ t.pc \in {"create_record", "file_upload", "returned"}
            /\ t.calls.upload = 0
            /\ t.calls.classifier = 0
            /\ Finished(t) =>
                  /\ t.state.current_step = "error"
                  /\ t.state.errors # <<>>
                  /\ t.state.openai_file_ids = <<>>
                  /\ t.state.domain = ""
            /\ HasRow(analyses, t.analysis_id) =>
                  /\ Row(t.analysis_id).openai_file_ids = <<>>
                  /\ Row(t.analysis_id).domain = ""

\* C12, the case: phase 1 of a job without files has ended, and the row of
\* the job is at step error.
C12_Witness ==
    \E t \in Tasks :
        /\ t.kind = "run" /\ temp_dir[t.analysis_id] = <<>> /\ Finished(t)
        /\ HasRow(analyses, t.analysis_id)
        /\ Row(t.analysis_id).current_step = "error"

\* How often task t is in the bag.
Copies(bag, t) == IF t \in BagToSet(bag) THEN bag[t] ELSE 0

\* A task that has ended takes no further step.
EndedTasksStay ==
    \A t \in Tasks : Finished(t) => Copies(tasks', t) >= Copies(tasks, t)

SelectStep ==
    \E id \in Jobs, intent_id \in IntentIds, custom_intent \in CustomIntents :
        select_intent(id, intent_id, custom_intent)

\* C14: once the stored current_step of a job is error, no select_intent
\* request and no step of a phase-2 task changes it to another step.
C14_ErrorIsTerminal ==
    [][(SelectStep \/ ContinueStep) =>
          \A id \in Jobs :
              (HasRow(analyses, id) /\ analyses[id].current_step = "error") =>
                  (HasRow(analyses', id) /\ analyses'[id].current_step = "error")]_vars

\* The keys of a response of get_analysis_results for a job in progress.
ProcessingKeys == {"id", "status", "current_step", "progress"}

\* C15: a response of get_analysis_results for a row whose current_step is
\* not complete has only the id, status "processing", the step and its
\* progress; a response with any other field is one for a row whose
\* current_step is complete.
C15_ResultsOnlyWhenComplete ==
    [][\A id \in Jobs :
          (get_analysis_results(id) /\ response'.code = 200) =>
              /\ HasRow(analyses, id)
              /\ LET step == analyses[id].current_step
                     body == response'.body
                 IN  /\ step # "complete" =>
                           /\ DOMAIN body = ProcessingKeys
                           /\ body.id = id
                           /\ body.status = "processing"
                           /\ body.current_step = step
                           /\ body.progress = calculate_progress(step)
                     /\ ~(DOMAIN body \subseteq ProcessingKeys) =>
                           (step = "complete" /\ body.status = "complete")]_vars

\* C15, the case: the results of a job were read while its row was at a
\* step before complete.
C15_Witness ==
    /\ response.op = "results" /\ response.code = 200
    /\ response.body.status = "processing"
    /\ HasRow(analyses, response.analysis_id)
    /\ Row(response.analysis_id).current_step = "waiting_for_intent"

\* C16: a select_intent request with intent_id "other" and no custom intent,
\* and an upload request with no file, are answered with an error, change no
\* row of the store and no uploaded file, and schedule no task.
C16_InputErrorsChangeNothing ==
    [][/\ \A id \in Jobs :
             (\/ select_intent(id, "other", None)
              \/ \E stored \in BOOLEAN : select_intent_refused(id, "other", None, stored)) =>
                 /\ response'.op = "select_intent"
                 /\ response'.code >= 400
                 /\ UNCHANGED <<analyses, tasks>>
       /\ \A id \in Jobs, user \in Visitors :
             (upload_documents(id, <<>>, user) \/ upload_documents_refused(<<>>)) =>
                 /\ response'.op = "upload"
                 /\ response'.code = 400
                 /\ UNCHANGED <<analyses, tasks, temp_dir, metadata>>]_vars

\* C16, the case: "other" without a custom intent was refused for a job
\* whose row waits for the intent.
C16_Witness ==
    /\ response.op = "select_intent" /\ response.code = 400
    /\ \E id \in Jobs :
          /\ HasRow(analyses, id)
          /\ Row(id).current_step = "waiting_for_intent"
          /\ Row(id).intent = ""
    /\ Idle

\* C18: a delete_analysis request by the authenticated user who uploaded the
\* documents of a job, for a row at complete or error, with a store that
\* answers, is answered 200 and removes the row.
C18_OwnerDeletesEndedJob ==
    [][\A id \in Jobs, user \in Visitors \ {None} :
          (/\ delete_analysis(id, user, TRUE, TRUE)
           /\ metadata[id] = user
           /\ HasRow(analyses, id)
           /\ analyses[id].current_step \in {"complete", "error"}) =>
              /\ response'.op = "delete"
              /\ response'.code = 200
              /\ ~HasRow(analyses', id)]_vars

\* No delete_analysis request is answered 200: the case C17 is about, a
\* read after a successful delete, is in no reachable state.
DeleteNeverSucceeds ==
    ~(response.op = "delete" /\ response.code = 200)

\* C19: every status read is answered with a status, a step, a progress and
\* an error.  Either they are those of the stored row, with status
\* "complete" exactly at step complete and "awaiting_intent" exactly at step
\* waiting_for_intent, or they are pending, pending, 0 and no error; without
\* a store or without a row they are the latter.
C19_PollIsWellFormed ==
    [][\A id \in Jobs :
          get_analysis_status(id) =>
              LET body == response'.body
                  pending == /\ body.status = "pending"
                             /\ body.current_step = "pending"
                             /\ body.progress = 0
                             /\ body.error = None
                  stored == /\ supabase
                            /\ HasRow(analyses, id)
                            /\ body.current_step = analyses[id].current_step
                            /\ body.progress = calculate_progress(analyses[id].current_step)
                            /\ body.error = analyses[id].error
                            /\ body.status \in {"complete", "awaiting_intent", "processing"}
                            /\ body.status = "complete" <=>
                                  analyses[id].current_step = "complete"
                            /\ body.status = "awaiting_intent" <=>
                                  analyses[id].current_step = "waiting_for_intent"
              IN  /\ response'.op = "status"
                  /\ response'.code = 200
                  /\ DOMAIN body = {"status", "current_step", "progress", "error"}
                  /\ pending \/ stored
                  /\ (~supabase \/ ~HasRow(analyses, id)) => pending]_vars

\* C19, the case: a poll was answered from a stored row that waits for the
\* intent.
C19_Witness ==
    /\ response.op = "status"
    /\ response.body.status = "awaiting_intent"
    /\ HasRow(analyses, response.analysis_id)
    /\ Row(response.analysis_id).current_step = "waiting_for_intent"

\* The names and the references are those of the same files, in the same
\* order.
Aligned(document_names, openai_file_ids) ==
    /\ Len(document_names) = Len(openai_file_ids)
    /\ \A i \in 1..Len(openai_file_ids) :
          openai_file_ids[i] = FileId(document_names[i])

\* C20: in every stored row and in the state of every running task,
\* document_names and openai_file_ids have the same length and the i-th
\* name is the name of the file behind the i-th reference.
C20_NamesMatchReferences ==
    /\ \A id \in Jobs :
          HasRow(analyses, id) =>
              Aligned(Row(id).document_names, Row(id).openai_file_ids)
    /\ \A t \in Tasks :
          ("document_names" \in DOMAIN t.state) =>
              Aligned(t.state.document_names, t.state.openai_file_ids)

\* C20, the case: of the two files of a job only the second was uploaded,
\* and its name and reference are stored.
C20_Witness ==
    \E id \in Jobs :
        /\ temp_dir[id] = <<"a.pdf", "b.pdf">>
        /\ HasRow(analyses, id)
        /\ Row(id).document_names = <<"b.pdf">>
        /\ Row(id).openai_file_ids = <<FileId("b.pdf")>>

\* The sequence has no element twice.
NoDuplicates(seq) ==
    \A i, j \in 1..Len(seq) : (seq[i] = seq[j]) => (i = j)

\* What a phase-2 task may hold as references and domain after it has read
\* the row: those of the row, or the empty defaults.
FromStore(id, state) ==
    /\ state.openai_file_ids \in
          {<<>>} \cup (IF supabase /\ HasRow(analyses, id)
                       THEN {analyses[id].openai_file_ids} ELSE {})
    /\ state.domain \in
          {""} \cup (IF supabase /\ HasRow(analyses, id)
                     THEN {analyses[id].domain} ELSE {})

\* The calls a task has made: none of upload_files and of the classifier
\* and at most one of the analyzer in phase 2; at most one of upload_files
\* and of the classifier in phase 1, with no reference held twice and no
\* more references than the job has files.
CallsBounded ==
         (\A t \in Tasks :
            /\ t.kind = "continue" =>
                  /\ t.calls.upload = 0
                  /\ t.calls.classifier = 0
                  /\ t.calls.analyzer <= 1
            /\ t.kind = "run" =>
                  /\ t.calls.upload <= 1
                  /\ t.calls.classifier <= 1
                  /\ ("files_metadata" \in DOMAIN t.state) =>
                        /\ NoDuplicates(t.state.openai_file_ids)
                        /\ Len(t.state.openai_file_ids) <= Len(temp_dir[t.analysis_id]))

\* C21: a phase-2 task never calls upload_files and never calls the
\* classifier, calls the analyzer at most once, and the references and the
\* domain it starts from are those of the row (or the defaults).  A phase-1
\* task calls upload_files at most once, uploads no file twice, and calls
\* the classifier at most once.
C21_CallsAtMostOnce ==
    [][/\ CallsBounded'
       /\ \A t \in Tasks :
            cont_reconstruct(t) =>
                \E t2 \in BagToSet(tasks') :
                    /\ t2.kind = "continue" /\ t2.pc = "analysis"
                    /\ t2.analysis_id = t.analysis_id
                    /\ FromStore(t.analysis_id, t2.state)
                    /\ tasks' = Advance(tasks, t, t2)]_vars

\* C21, the case: a phase-2 task has called the analyzer once, on the
\* references it read from the row.
C21_Witness ==
    \E t \in Tasks :
        /\ t.kind = "continue" /\ t.pc = "persist"
        /\ t.calls.analyzer = 1
        /\ t.state.openai_file_ids # <<>>
        /\ HasRow(analyses, t.analysis_id)
        /\ t.state.openai_file_ids = Row(t.analysis_id).openai_file_ids

\* C22: a job whose documents were uploaded without an authenticated user
\* (guest mode) has no row in the store, whatever phases have run for it.
C22_GuestJobHasNoRow ==
    \A id \in Jobs :
        (temp_dir[id] # <<>> /\ metadata[id] = None) => ~HasRow(analyses, id)

\* The references of the files of file_paths at the positions of ok, in the
\* order of file_paths.
RECURSIVE ReferencesOf(_, _, _)
ReferencesOf(file_paths, ok, i) ==
    IF i > Len(file_paths) THEN <<>>
    ELSE (IF i \in ok THEN << FileId(file_paths[i]) >> ELSE <<>>)
            \o ReferencesOf(file_paths, ok, i + 1)

\* C24: after the upload step of phase 1 the step is error exactly when the
\* task holds no reference; otherwise the step is domain_detection, the
\* references are those of the uploaded files in upload order, and the
\* errors of the task hold one message for every file that failed.
C24_UploadStepOutcome ==
    \A t \in Tasks :
        LET file_paths == temp_dir[t.analysis_id] IN
        /\ (t.kind = "run" /\ t.pc = "domain_detection") =>
              /\ t.state.current_step = "domain_detection"
              /\ t.state.openai_file_ids # <<>>
              /\ \E ok \in SUBSET (1..Len(file_paths)) :
                    /\ t.state.openai_file_ids = ReferencesOf(file_paths, ok, 1)
                    /\ Len(t.state.errors) = Len(file_paths) - Cardinality(ok)
        /\ (t.kind = "run" /\ t.pc = "returned" /\ t.state.current_step = "error") =>
              t.state.openai_file_ids = <<>>

\* C25: when a status read reports waiting_for_intent, the row of the job
\* holds the references, the names and the domain of phase 1.
C25_WaitingRowHasPhaseOneData ==
    (response.op = "status" /\ response.body.current_step = "waiting_for_intent") =>
        /\ HasRow(analyses, response.analysis_id)
        /\ Row(response.analysis_id).openai_file_ids # <<>>
        /\ Row(response.analysis_id).document_names # <<>>
        /\ Row(response.analysis_id).domain # ""

\* The intent for which the analyzer produced the stored result, None for
\* a row whose result is not one of the analyzer.
ResultIntent(row) ==
    IF Len(row.executive_summary) = 3 /\ row.executive_summary[1] = "Summary for"
    THEN row.executive_summary[3]
    ELSE None

\* C26: whenever the stored current_step of a job is complete and the row
\* holds a result of the analyzer, that result is the one produced for the
\* stored intent.
C26_CompleteResultIsOfStoredIntent ==
    \A id \in Jobs :
        (/\ HasRow(analyses, id)
         /\ Row(id).current_step = "complete"
         /\ ResultIntent(Row(id)) # None) =>
            ResultIntent(Row(id)) = Row(id).intent

\* C27: a row leaves the store only in a step of delete_analysis for its
\* id, by an authenticated user whose id is the row's user_id; a delete
\* request answered 401, 403 or 500 (no row of this id) leaves every row
\* as it is, and no step of a background task removes a row.
C27_OnlyOwnerDeleteRemoves ==
    [][/\ \A id \in Jobs :
             (HasRow(analyses, id) /\ ~HasRow(analyses', id)) =>
                 \E user \in Visitors \ {None} :
                     /\ delete_analysis(id, user, TRUE, TRUE)
                     /\ analyses[id].user_id = user
                     /\ response'.code = 200
       /\ (response'.op = "delete" /\ response'.code \in {401, 403, 500}) =>
             analyses' = analyses
       /\ TaskStep =>
             \A id \in Jobs : HasRow(analyses, id) => HasRow(analyses', id)]_vars

\* C27, the case: a delete request for a stored row was answered 403, and
\* the row is still stored.
C27_Witness ==
    /\ response.op = "delete" /\ response.code = 403
    /\ \E id \in Jobs : HasRow(analyses, id) /\ metadata[id] # None

\* C23: a request that presents an access token whose session was
\* invalidated by logout is not authenticated.
C23_LoggedOutTokenIsRefused ==
    [][\A token \in IssuedTokens, readable \in BOOLEAN :
          (/\ get_current_user(token, readable)
           /\ \E s \in sessions :
                 s.token_hash = hash_token(token) /\ ~s.is_valid) =>
              response'.code = 401]_vars

\* A step in which a call of verify_otp of client c ends, and one in which
\* it ends with success: the code matched and the route answers 200 with
\* the access token.
VerifyEnds(c) ==
    \E written \in BOOLEAN, session_stored \in BOOLEAN :
        verify_otp_decide(c, written, session_stored)

VerifySucceeds(c) ==
    VerifyEnds(c) /\ response'.code = 200

\* C28: a call of verify_otp succeeds only with an OTP row that is not
\* marked used, so that no row makes two calls succeed.
C28_OtpIsSingleUse ==
    [][\A c \in Clients :
          VerifySucceeds(c) => ~otps[verifying[c].otp_record.id].used]_vars

\* C29: a wrong code is compared only against a row whose attempts are
\* below OTP_MAX_ATTEMPTS and raises them by exactly one; a call that ends
\* when the attempts of its row have reached OTP_MAX_ATTEMPTS fails
\* without a comparison.
C29_AttemptsAreBounded ==
    [][\A c \in Clients :
          VerifyEnds(c) =>
              LET id == verifying[c].otp_record.id
                  compared_wrong == /\ response'.code = 400
                                    /\ response'.detail = "Invalid code"
              IN  /\ compared_wrong =>
                        /\ otps[id].attempts < OTP_MAX_ATTEMPTS
                        /\ otps'[id].attempts = otps[id].attempts + 1
                  /\ otps[id].attempts >= OTP_MAX_ATTEMPTS =>
                        (response'.code = 400 /\ ~compared_wrong)]_vars

\* C30: a call of verify_otp succeeds only with the OTP row of its email
\* that was created last.
C30_OnlyNewestOtpAuthenticates ==
    [][\A c \in Clients :
          VerifySucceeds(c) =>
              \A j \in 1..Len(otps) :
                  otps[j].email = verifying[c].email =>
                      j <= verifying[c].otp_record.id]_vars

====
